---- MODULE Spec2Model ----
(***************************************************************************)
(* A model of the three translation units of the repository:               *)
(*   example.c       is_acceptable_id, some_function, the command-line main *)
(*   otherfile.c     the aborting database_id_exists and                    *)
(*                   function_somewhere_else                                *)
(*   test-example.c  the stub database_id_exists, test_id and the test main *)
(* A state is one process: its program point, its locals, what it wrote to  *)
(* standard output and the error stream, and how it ended.                  *)
(***************************************************************************)
EXTENDS Integers, Sequences, FiniteSets, TLC

VARIABLES
    run,        \* which entry the process was started at: "cli", "test", "lib"
    link,       \* which database_id_exists the executable resolves to
    argv,       \* the argument vector of main; argc is its length
    argument,   \* the int handed to some_function
    pc,         \* the program point
    id,         \* main's local `int id`
    uid,        \* is_acceptable_id's parameter `unsigned int id`
    ans,        \* what database_id_exists returned to is_acceptable_id
    result,     \* what is_acceptable_id returned
    caller,     \* who called is_acceptable_id: "main" or "test_id"
    isAcc,      \* main's local `int is_acceptable`
    testIdx,    \* which assertion of test_id is being executed
    stdout,     \* what was written to standard output, in order
    stderr,     \* what was written to the error stream, in order
    exit,       \* "running", or how it ended: "exit 0", "exit 1", "SIGABRT", "SIGSEGV"
    calls,      \* history: the functions entered so far
    dbCalls,    \* history: existence checks made by the current is_acceptable_id call
    dbArg,      \* history: the argument of the last existence check
    rangeDone,  \* history: the current is_acceptable_id call evaluated line 15
    atCall      \* history: the caller-visible state when is_acceptable_id was entered

vars == <<run, link, argv, argument, pc, id, uid, ans, result, caller, isAcc,
          testIdx, stdout, stderr, exit, calls, dbCalls, dbArg, rangeDone, atCall>>

(***************************************************************************)
(* Bounds of the model.                                                     *)
(***************************************************************************)
MaxArgc == 3
MaxArgLen == 4

(***************************************************************************)
(* unsigned int and int.  TLC's integers are 32 bits wide, so an            *)
(* unsigned int is kept as its two 16-bit halves.                           *)
(***************************************************************************)
Half == 2^16
HalfTop == 2^15
IntMax == (HalfTop - 1) * Half + (Half - 1)
IntMin == -IntMax - 1

\* The conversion of an int to unsigned int: the value modulo 2^32.
ToUnsigned_Abs(i) ==
    LET a == IF i = IntMin THEN 0 ELSE IF i < 0 THEN -i ELSE i
    IN  [hi |-> a \div Half, lo |-> a % Half]

ToUnsigned(i) ==
    IF i >= 0
    THEN [hi |-> i \div Half, lo |-> i % Half]
    ELSE LET j == (i + IntMax) + 1
         IN  [hi |-> HalfTop + (j \div Half), lo |-> j % Half]

\* The int with the same 32 bits as the unsigned u.
FromUnsigned(u) ==
    IF u.hi < HalfTop
    THEN u.hi * Half + u.lo
    ELSE (((u.hi - HalfTop) * Half + u.lo) - IntMax) - 1

\* 2^32 - u, modulo 2^32.
UNeg(u) ==
    [hi |-> ((Half - 1) - u.hi + (IF u.lo = 0 THEN 1 ELSE 0)) % Half,
     lo |-> (Half - u.lo) % Half]

\* a < b on unsigned int.
ULt(a, b) == a.hi < b.hi \/ (a.hi = b.hi /\ a.lo < b.lo)

(***************************************************************************)
(* Strings are sequences of one-character strings where the code reads      *)
(* them character by character (argv), and strings where it writes them.    *)
(***************************************************************************)
Digits == <<"0", "1", "2", "3", "4", "5", "6", "7", "8", "9">>

IsDigit(c) == \E k \in 1..10 : Digits[k] = c

DigitVal(c) == (CHOOSE k \in 1..10 : Digits[k] = c) - 1

IsSpace(c) == c \in {" ", "\t", "\n", "\r", "\f"}

RECURSIVE Str(_)
Str(s) == IF s = <<>> THEN "" ELSE Head(s) \o Str(Tail(s))

\* printf's %d.
RECURSIVE FormatD(_)
FormatD(n) ==
    IF n < 0 THEN "-" \o FormatD(-n)
    ELSE IF n < 10 THEN Digits[n + 1]
    ELSE FormatD(n \div 10) \o Digits[(n % 10) + 1]

\* atoi: leading white space, an optional sign, then the decimal digits up to
\* the first character that is none.
RECURSIVE SkipSpace(_, _)
SkipSpace(s, i) ==
    IF i <= Len(s) /\ IsSpace(s[i]) THEN SkipSpace(s, i + 1) ELSE i

\* acc * 10 + d modulo 2^32; ovf records that the magnitude passed 2^32 - 1.
\* (a ranges over the one value acc, so that acc is evaluated once.)
MulAdd(acc, d) ==
    CHOOSE r \in { LET lo2 == a.lo * 10 + d
                       hi2 == a.hi * 10 + (lo2 \div Half)
                   IN  [hi |-> hi2 % Half, lo |-> lo2 % Half,
                        ovf |-> a.ovf \/ hi2 >= Half] : a \in {acc} } : TRUE

\* The digits from position i on, accumulated from acc.
RECURSIVE Magnitude(_, _, _)
Magnitude(s, i, acc) ==
    IF i <= Len(s) /\ IsDigit(s[i])
    THEN Magnitude(s, i + 1, MulAdd(acc, DigitVal(s[i])))
    ELSE acc

\* The values atoi may return.  A value an int cannot hold is undefined
\* behaviour: the C libraries in use return the low 32 bits, the clamped int,
\* or the low 32 bits of the clamped long.
AtoiResults(s) ==
    LET i0  == SkipSpace(s, 1)
        sgn == i0 <= Len(s) /\ s[i0] \in {"+", "-"}
        neg == sgn /\ s[i0] = "-"
        m   == Magnitude(s, IF sgn THEN i0 + 1 ELSE i0,
                         [hi |-> 0, lo |-> 0, ovf |-> FALSE])
        u   == [hi |-> m.hi, lo |-> m.lo]
        fits == ~m.ovf /\ (m.hi < HalfTop \/ (neg /\ m.hi = HalfTop /\ m.lo = 0))
    IN  IF fits
        THEN {FromUnsigned(IF neg THEN UNeg(u) ELSE u)}
        ELSE {FromUnsigned(IF neg THEN UNeg(u) ELSE u),
              IF neg THEN IntMin ELSE IntMax,
              IF neg THEN 0 ELSE -1}

\* GNU basename: what follows the last '/', the whole string when there is none.
RECURSIVE Basename(_)
Basename(p) ==
    IF \E k \in 1..Len(p) : p[k] = "/"
    THEN Basename(Tail(p))
    ELSE p

(***************************************************************************)
(* The inputs: argument vectors, and the int some_function is handed.       *)
(***************************************************************************)
Alphabet == {"0", "1", "9", "-"}

GeneratedArgs == UNION {[1..n -> Alphabet] : n \in 0..MaxArgLen}

ExtraArgs ==
    { <<"3", "0", "0", "0">>, <<"5", "0", "0", "0">>,
      <<"1", "0", "0", "0", "0">>, <<"1", "0", "0", "0", "1">>,
      <<"a", "b", "c">>, <<" ", "4", "2">>, <<"+", "5", "0", "0", "0">>,
      <<"1", "0", "0", "1", "x">>, <<"-", "3", "0", "0", "0">>,
      <<"2", "1", "4", "7", "4", "8", "3", "6", "4", "7">>,
      <<"2", "1", "4", "7", "4", "8", "3", "6", "4", "8">>,
      <<"-", "2", "1", "4", "7", "4", "8", "3", "6", "4", "8">>,
      <<"4", "2", "9", "4", "9", "7", "0", "2", "9", "6">>,
      <<"-", "4", "2", "9", "4", "9", "6", "4", "2", "9", "6">>,
      <<"9", "9", "9", "9", "9", "9", "9", "9", "9", "9", "9", "9">> }

Args == GeneratedArgs \cup ExtraArgs

ProgNames == { <<"e", "x", "a", "m", "p", "l", "e">>,
               <<".", "/", "b", "/", "e", "x", "a", "m", "p", "l", "e">> }

\* argv[0..argc-1] as a sequence: entry 1 is argv[0], entry 2 is argv[1].
ArgVectors ==
    {<<>>} \cup {<<p>> : p \in ProgNames}
    \cup {<<p, a>> \o [k \in 1..(n - 2) |-> <<"x">>] :
            p \in ProgNames, a \in Args, n \in 2..MaxArgc}

Arguments == {-1, 0, 3000}

(***************************************************************************)
(* example.c, line 15, and the literals of test_id.                         *)
(***************************************************************************)
LowerBound == 1000
UpperBound == 10000

RangeCheck_Inclusive(u) ==
    ~ULt(u, ToUnsigned(LowerBound)) /\ ULt(u, ToUnsigned(UpperBound))

\* id > 1000 && id < 10000
RangeCheck(u) ==
    ULt(ToUnsigned(LowerBound), u) /\ ULt(u, ToUnsigned(UpperBound))

\* The assertions of test_id in order: assert(!is_acceptable_id(10)) expects
\* false, assert(is_acceptable_id(5000)) expects true.
TestCases ==
    << [id |-> 10,   expect |-> FALSE],
       [id |-> 100,  expect |-> FALSE],
       [id |-> 1000, expect |-> FALSE],
       [id |-> 5000, expect |-> TRUE],
       [id |-> 3000, expect |-> TRUE] >>

Diagnostic(fn) == "..... " \o fn \o " wasn't supposed to be called\n"

AcceptableLine(n) == "ID is acceptable: " \o FormatD(n) \o "\n"

UsageLine(name) == "Usage: " \o name \o " <id>\n"

\* The name under which a call of database_id_exists is recorded.
DbSymbol(l) ==
    CASE l = "otherfile" -> "otherfile.c:database_id_exists"
      [] l = "stub"      -> "test-example.c:database_id_exists"
      [] l = "extern"    -> "extern:database_id_exists"

\* Where is_acceptable_id returns to.
ReturnTo(who) == IF who = "main" THEN "main29r" ELSE "test_r"

inputs == <<run, link, argv, argument>>
locals == <<id, uid, ans, result, caller, isAcc, testIdx>>
io     == <<stdout, stderr, exit>>
hist   == <<calls, dbCalls, dbArg, rangeDone, atCall>>

\* What a caller of is_acceptable_id can observe of the program's state.
Visible == [stdout |-> stdout, stderr |-> stderr, exit |-> exit, id |-> id,
            isAcc |-> isAcc, testIdx |-> testIdx, argv |-> argv,
            argument |-> argument]

(***************************************************************************)
(* The initial states: the command-line program (example.c linked with      *)
(* otherfile.c, or with an existence check that returns), the test program  *)
(* (test-example.c), and a call of the exported some_function from          *)
(* elsewhere in the project.                                                *)
(***************************************************************************)
Init ==
    /\ \/ /\ run = "cli"
          /\ link \in {"otherfile", "extern"}
          /\ argv \in ArgVectors
          /\ argument = 0
          /\ pc = "main24"
          /\ calls = {"main"}
       \/ /\ run = "test"
          /\ link = "stub"
          /\ argv \in {<<p>> : p \in ProgNames}
          /\ argument = 0
          /\ pc = "tmain28"
          /\ calls = {"test_main"}
       \/ /\ run = "lib"
          /\ link = "otherfile"
          /\ argv = <<>>
          /\ argument \in Arguments
          /\ pc = "sf19"
          /\ calls = {"some_function"}
    /\ id = 0
    /\ uid = ToUnsigned(0)
    /\ ans = FALSE
    /\ result = FALSE
    /\ caller = "none"
    /\ isAcc = 0
    /\ testIdx = 0
    /\ stdout = <<>>
    /\ stderr = <<>>
    /\ exit = "running"
    /\ dbCalls = 0
    /\ dbArg = ToUnsigned(0)
    /\ rangeDone = FALSE
    /\ atCall = [stdout |-> <<>>, stderr |-> <<>>, exit |-> "running", id |-> 0,
                 isAcc |-> 0, testIdx |-> 0, argv |-> argv, argument |-> argument]

(***************************************************************************)
(* example.c: main.                                                         *)
(***************************************************************************)
\* Entering is_acceptable_id(u) from `who`.
EnterIsAcceptable(u, who) ==
    /\ uid' = u
    /\ caller' = who
    /\ pc' = "ia12"
    /\ calls' = calls \cup {"is_acceptable_id"}
    /\ dbCalls' = 0
    /\ rangeDone' = FALSE
    /\ atCall' = Visible
    /\ UNCHANGED <<inputs, id, ans, result, isAcc, testIdx, io, dbArg>>

\* Lines 24-27: argc < 2.  With argc = 0 argv[0] is a null pointer and
\* basename(argv[0]) is undefined: the process dies reading it, or a library
\* that tolerates it prints "(null)".
MainUsage ==
    /\ pc = "main24"
    /\ Len(argv) < 2
    /\ IF Len(argv) = 0
       THEN \E outcome \in {"SIGSEGV", "(null)"} :
               IF outcome = "SIGSEGV"
               THEN exit' = "SIGSEGV" /\ UNCHANGED stderr
               ELSE exit' = "exit 1" /\ stderr' = Append(stderr, UsageLine("(null)"))
       ELSE /\ stderr' = Append(stderr, UsageLine(Str(Basename(argv[1]))))
            /\ exit' = "exit 1"
    /\ pc' = "halted"
    /\ UNCHANGED <<inputs, locals, stdout, hist>>

\* Lines 24, 28: int id = atoi(argv[1]).
MainAtoi ==
    /\ pc = "main24"
    /\ Len(argv) >= 2
    /\ \E v \in AtoiResults(argv[2]) : id' = v
    /\ pc' = "main29"
    /\ UNCHANGED <<inputs, uid, ans, result, caller, isAcc, testIdx, io, hist>>

\* Line 29: the call is_acceptable_id(id), the int converted to unsigned int.
MainCall ==
    /\ pc = "main29"
    /\ EnterIsAcceptable(ToUnsigned(id), "main")

\* Line 29: int is_acceptable = <the bool returned>.
MainAssign ==
    /\ pc = "main29r"
    /\ isAcc' = IF result THEN 1 ELSE 0
    /\ pc' = "main31"
    /\ UNCHANGED <<inputs, id, uid, ans, result, caller, testIdx, io, hist>>

\* A main that hands the verdict on to some_function before printing it.
MainPrintf_CallsSomeFunction ==
    /\ pc = "main31"
    /\ pc' = "sf19"
    /\ calls' = calls \cup {"some_function"}
    /\ UNCHANGED <<inputs, locals, io, dbCalls, dbArg, rangeDone, atCall>>

\* Line 31.
MainPrintf ==
    /\ pc = "main31"
    /\ stdout' = Append(stdout, AcceptableLine(isAcc))
    /\ pc' = "main33"
    /\ UNCHANGED <<inputs, locals, stderr, exit, hist>>

\* A main that reports an unacceptable identifier through its exit code.
MainReturn_FailsUnacceptable ==
    /\ pc = "main33"
    /\ exit' = IF isAcc = 1 THEN "exit 0" ELSE "exit 1"
    /\ pc' = "halted"
    /\ UNCHANGED <<inputs, locals, stdout, stderr, hist>>

\* Line 33.
MainReturn ==
    /\ pc = "main33"
    /\ exit' = "exit 0"
    /\ pc' = "halted"
    /\ UNCHANGED <<inputs, locals, stdout, stderr, hist>>

(***************************************************************************)
(* example.c: is_acceptable_id.                                             *)
(***************************************************************************)
\* An is_acceptable_id that asks the database only about identifiers in range.
IaCallDb_RangeFirst ==
    /\ pc = "ia12"
    /\ IF RangeCheck(uid)
       THEN /\ dbCalls' = dbCalls + 1
            /\ dbArg' = uid
            /\ pc' = "db"
            /\ calls' = calls \cup {DbSymbol(link)}
            /\ UNCHANGED <<result, rangeDone>>
       ELSE /\ result' = FALSE
            /\ rangeDone' = TRUE
            /\ pc' = ReturnTo(caller)
            /\ UNCHANGED <<dbCalls, dbArg, calls>>
    /\ UNCHANGED <<inputs, id, uid, ans, caller, isAcc, testIdx, io, atCall>>

\* Line 12: the call database_id_exists(id).
IaCallDb ==
    /\ pc = "ia12"
    /\ dbCalls' = dbCalls + 1
    /\ dbArg' = uid
    /\ pc' = "db"
    /\ calls' = calls \cup {DbSymbol(link)}
    /\ UNCHANGED <<inputs, locals, io, rangeDone, atCall>>

\* An is_acceptable_id that goes on to the range check whatever the answer.
IaBranch_IgnoresAnswer ==
    /\ pc = "ia12r"
    /\ pc' = "ia15"
    /\ UNCHANGED <<inputs, locals, io, hist>>

\* Lines 12-13: if the identifier exists, return 0.
IaBranch ==
    /\ pc = "ia12r"
    /\ IF ans
       THEN result' = FALSE /\ pc' = ReturnTo(caller)
       ELSE pc' = "ia15" /\ UNCHANGED result
    /\ UNCHANGED <<inputs, id, uid, ans, caller, isAcc, testIdx, io, hist>>

\* An is_acceptable_id that leaves a trace of the comparison on standard output.
IaRange_Prints ==
    /\ pc = "ia15"
    /\ result' = RangeCheck(uid)
    /\ rangeDone' = TRUE
    /\ stdout' = Append(stdout, Diagnostic("is_acceptable_id"))
    /\ pc' = ReturnTo(caller)
    /\ UNCHANGED <<inputs, id, uid, ans, caller, isAcc, testIdx, stderr, exit,
                   calls, dbCalls, dbArg, atCall>>

\* Line 15: return id > 1000 && id < 10000.
IaRange ==
    /\ pc = "ia15"
    /\ result' = RangeCheck(uid)
    /\ rangeDone' = TRUE
    /\ pc' = ReturnTo(caller)
    /\ UNCHANGED <<inputs, id, uid, ans, caller, isAcc, testIdx, io,
                   calls, dbCalls, dbArg, atCall>>

\* Lines 18-21: some_function.
SomeFunctionPrintf ==
    /\ pc = "sf19"
    /\ stdout' = Append(stdout, Diagnostic("some_function"))
    /\ pc' = "sf20"
    /\ UNCHANGED <<inputs, locals, stderr, exit, hist>>

SomeFunctionCall ==
    /\ pc = "sf20"
    /\ pc' = "fse9"
    /\ calls' = calls \cup {"function_somewhere_else"}
    /\ UNCHANGED <<inputs, locals, io, dbCalls, dbArg, rangeDone, atCall>>

(***************************************************************************)
(* otherfile.c.                                                             *)
(***************************************************************************)
\* Lines 9-10: function_somewhere_else.
FsePrintf ==
    /\ pc = "fse9"
    /\ stdout' = Append(stdout, Diagnostic("function_somewhere_else"))
    /\ pc' = "fse10"
    /\ UNCHANGED <<inputs, locals, stderr, exit, hist>>

FseAbort ==
    /\ pc = "fse10"
    /\ exit' = "SIGABRT"
    /\ pc' = "halted"
    /\ UNCHANGED <<inputs, locals, stdout, stderr, hist>>

\* Line 18 of database_id_exists.
DbOtherfilePrintf ==
    /\ pc = "db"
    /\ link = "otherfile"
    /\ stdout' = Append(stdout, Diagnostic("database_id_exists"))
    /\ pc' = "db19"
    /\ UNCHANGED <<inputs, locals, stderr, exit, hist>>

\* A database_id_exists without its abort(): line 20, return true, is reached.
DbOtherfileAbort_Returns ==
    /\ pc = "db19"
    /\ ans' = TRUE
    /\ pc' = "ia12r"
    /\ UNCHANGED <<inputs, id, uid, result, caller, isAcc, testIdx, io, hist>>

\* Line 19: abort().
DbOtherfileAbort ==
    /\ pc = "db19"
    /\ exit' = "SIGABRT"
    /\ pc' = "halted"
    /\ UNCHANGED <<inputs, locals, stdout, stderr, hist>>

\* An existence check that returns: it answers either way and has no effect
\* the caller can see.
DbExtern ==
    /\ pc = "db"
    /\ link = "extern"
    /\ \E b \in BOOLEAN : ans' = b
    /\ pc' = "ia12r"
    /\ UNCHANGED <<inputs, id, uid, result, caller, isAcc, testIdx, io, hist>>

(***************************************************************************)
(* test-example.c.                                                          *)
(***************************************************************************)
\* A stub that reports every identifier as existing.
DbStub_True ==
    /\ pc = "db"
    /\ link = "stub"
    /\ ans' = TRUE
    /\ pc' = "ia12r"
    /\ UNCHANGED <<inputs, id, uid, result, caller, isAcc, testIdx, io, hist>>

\* Lines 9-12: the stub database_id_exists, return false.
DbStub ==
    /\ pc = "db"
    /\ link = "stub"
    /\ ans' = FALSE
    /\ pc' = "ia12r"
    /\ UNCHANGED <<inputs, id, uid, result, caller, isAcc, testIdx, io, hist>>

\* Line 28: main calls test_id.
TestMainCall ==
    /\ pc = "tmain28"
    /\ testIdx' = 1
    /\ pc' = "test"
    /\ calls' = calls \cup {"test_id"}
    /\ UNCHANGED <<inputs, id, uid, ans, result, caller, isAcc, io,
                   dbCalls, dbArg, rangeDone, atCall>>

\* Lines 15-20: the call inside the current assertion.
TestIdCall ==
    /\ pc = "test"
    /\ EnterIsAcceptable(ToUnsigned(TestCases[testIdx].id), "test_id")

\* Lines 15-20: the assertion itself; a failed assert writes to the error
\* stream and aborts.
TestIdAssert ==
    /\ pc = "test_r"
    /\ IF result = TestCases[testIdx].expect
       THEN /\ IF testIdx < Len(TestCases)
               THEN testIdx' = testIdx + 1 /\ pc' = "test"
               ELSE pc' = "tmain30" /\ UNCHANGED testIdx
            /\ UNCHANGED <<stderr, exit>>
       ELSE /\ stderr' = Append(stderr, "test_id: Assertion failed.\n")
            /\ exit' = "SIGABRT"
            /\ pc' = "halted"
            /\ UNCHANGED testIdx
    /\ UNCHANGED <<inputs, id, uid, ans, result, caller, isAcc, stdout, hist>>

\* Line 30: return 0.
TestMainReturn ==
    /\ pc = "tmain30"
    /\ exit' = "exit 0"
    /\ pc' = "halted"
    /\ UNCHANGED <<inputs, locals, stdout, stderr, hist>>

Next ==
    \/ MainUsage \/ MainAtoi \/ MainCall \/ MainAssign \/ MainPrintf \/ MainReturn
    \/ IaCallDb \/ IaBranch \/ IaRange
    \/ SomeFunctionPrintf \/ SomeFunctionCall
    \/ FsePrintf \/ FseAbort
    \/ DbOtherfilePrintf \/ DbOtherfileAbort \/ DbExtern
    \/ DbStub \/ TestMainCall \/ TestIdCall \/ TestIdAssert \/ TestMainReturn

Spec == Init /\ [][Next]_vars

\* A process is one thread of control: while it has a next statement it
\* executes it.
FairSpec == Spec /\ WF_vars(Next)

(***************************************************************************)
(* The claims.                                                              *)
(***************************************************************************)
\* is_acceptable_id has just returned to its caller: uid, ans and result are
\* the argument, the existence check's answer and the value of that call.
Returned == pc \in {"main29r", "test_r"}

\* 1000 < u < 10000 on the halves of an unsigned int.
InRange(u) == u.hi = 0 /\ u.lo > 1000 /\ u.lo < 10000

U(n) == [hi |-> 0, lo |-> n]

HasAcceptableLine == \E k \in 1..Len(stdout) :
                        stdout[k] \in {"ID is acceptable: 0\n", "ID is acceptable: 1\n"}

\* C1: is_acceptable_id(id) returns true exactly when database_id_exists(id)
\* answered false and 1000 < id < 10000; so every id <= 1000 and every
\* id >= 10000 is rejected whatever the answer, 1000 and 10000 are rejected,
\* and 1001 and 9999 are accepted when the id does not exist.
C1_AcceptedExactlyInRange ==
    Returned =>
        /\ result <=> (~ans /\ InRange(uid))
        /\ (uid.hi > 0 \/ uid.lo <= 1000 \/ uid.lo >= 10000) => ~result
        /\ uid \in {U(1000), U(10000)} => ~result
        /\ (uid \in {U(1001), U(9999)} /\ ~ans) => result

C1_Witness == Returned /\ ~ans /\ uid = U(9999) /\ result

\* C2: when the existence check reports true, is_acceptable_id returns false,
\* also for an id inside 1000 < id < 10000.
C2_ExistingIsRejected == (Returned /\ ans) => ~result

C2_Witness == Returned /\ ans /\ InRange(uid) /\ ~result

\* C3 as stated: a run of the command-line main with an identifier argument
\* always ends with exit code 0 and exactly one "ID is acceptable" line.
C3_AlwaysExitZero ==
    (run = "cli" /\ Len(argv) >= 2 /\ pc = "halted") =>
        /\ exit = "exit 0"
        /\ stdout \in {<<"ID is acceptable: 0\n">>, <<"ID is acceptable: 1\n">>}

\* What holds in every state of a run of main with an identifier argument.
C3_Safety ==
    (run = "cli" /\ Len(argv) >= 2) =>
        /\ exit \in {"running", "exit 0", "SIGABRT"}
        /\ pc = "halted" =>
              IF link = "otherfile"
              THEN /\ exit = "SIGABRT"
                   /\ ~HasAcceptableLine
              ELSE /\ exit = "exit 0"
                   /\ stdout \in {<<"ID is acceptable: 0\n">>,
                                  <<"ID is acceptable: 1\n">>}

\* C3 as amended: with an identifier argument and an existence check that
\* returns, the run ends, with exit code 0 after exactly one "ID is acceptable"
\* line, whatever the identifier; linked with otherfile.c the existence check
\* aborts, and the run ends with SIGABRT without such a line.
C3_ExitZeroWhenCheckReturns ==
    /\ []C3_Safety
    /\ (run = "cli" /\ Len(argv) >= 2) ~> (pc = "halted")

C3_Witness ==
    /\ run = "cli" /\ link = "extern" /\ pc = "halted" /\ exit = "exit 0"
    /\ ~InRange(uid)
    /\ stdout = <<"ID is acceptable: 0\n">>

\* C4: a run of the command-line main with argc < 2 writes the usage message
\* to the error stream and returns exit code 1, without calling
\* is_acceptable_id or the existence check and without an "ID is acceptable"
\* line.
C4_UsageAndExitOne ==
    (run = "cli" /\ Len(argv) < 2 /\ pc = "halted") =>
        /\ exit = "exit 1"
        /\ Len(stderr) = 1
        /\ stdout = <<>>
        /\ calls = {"main"}

\* C4 where argv[0] names the program (argc = 1): the usage message with the
\* program's base name goes to the error stream and the exit code is 1.
C4_UsageWhenNamed ==
    (run = "cli" /\ Len(argv) = 1 /\ pc = "halted") =>
        /\ exit = "exit 1"
        /\ stderr = <<"Usage: example <id>\n">>
        /\ stdout = <<>>
        /\ calls = {"main"}

\* The process runs with otherfile.c linked and has entered one of its functions.
InCollaborator ==
    /\ link = "otherfile"
    /\ calls \cap {"otherfile.c:database_id_exists", "function_somewhere_else"} # {}

\* What holds in every state once a function of otherfile.c has been entered.
C5_Safety ==
    InCollaborator =>
        /\ pc \in {"db", "db19", "fse9", "fse10", "halted"}
        /\ exit \in {"running", "SIGABRT"}
        /\ pc = "halted" <=> exit = "SIGABRT"
        /\ ~HasAcceptableLine

\* C5: linked with otherfile.c, database_id_exists and function_somewhere_else
\* never return to their caller: once one is entered the process only runs
\* that function's body and ends with SIGABRT; no "ID is acceptable" line is
\* printed and no exit code is produced.
C5_CollaboratorNeverReturns ==
    /\ []C5_Safety
    /\ InCollaborator ~> (pc = "halted" /\ exit = "SIGABRT")

C5_Witness ==
    /\ run = "cli" /\ link = "otherfile"
    /\ "otherfile.c:database_id_exists" \in calls
    /\ pc = "halted" /\ exit = "SIGABRT"

\* What holds in every state of a run of the test program.
C6_Safety ==
    run = "test" =>
        /\ exit \in {"running", "exit 0"}
        /\ stderr = <<>>
        /\ calls \cap {"otherfile.c:database_id_exists", "function_somewhere_else",
                       "some_function", "main"} = {}
        /\ pc = "test_r" =>
              /\ uid = U(<<10, 100, 1000, 5000, 3000>>[testIdx])
              /\ result = (testIdx \in {4, 5})
        /\ pc \in {"tmain30", "halted"} => testIdx = 5
        /\ pc = "halted" <=> exit = "exit 0"

\* C6: the test program passes the five assertions of test_id (10, 100 and
\* 1000 rejected, 5000 and 3000 accepted) and ends with exit code 0; it never
\* enters the database_id_exists of otherfile.c, function_somewhere_else,
\* some_function or the main of example.c, and never aborts.
C6_TestHarnessPasses ==
    /\ []C6_Safety
    /\ (run = "test") ~> (pc = "halted" /\ exit = "exit 0")

C6_Witness == run = "test" /\ pc = "halted" /\ exit = "exit 0" /\ testIdx = 5

\* C7: a call of is_acceptable_id(id) makes the existence check exactly once,
\* with the same id, before the range comparison, for ids outside 1000..10000
\* too.
C7_ExistenceCheckedOnceFirst ==
    /\ pc = "ia12" => (dbCalls = 0 /\ ~rangeDone)
    /\ pc \in {"db", "db19", "ia12r", "ia15"} =>
          (dbCalls = 1 /\ dbArg = uid /\ ~rangeDone)
    /\ Returned => (dbCalls = 1 /\ dbArg = uid)

C7_Witness ==
    /\ Returned /\ dbCalls = 1 /\ dbArg = uid
    /\ uid.hi > 0 /\ ~ans /\ rangeDone

\* C8: is_acceptable_id is pure: while it runs and when it has returned,
\* nothing its caller can observe has changed since the call, and the value
\* returned is one fixed function of the id and the existence check's answer,
\* whatever ran before.
C8_PureAndStateless ==
    /\ pc \in {"ia12", "ia12r", "ia15", "main29r", "test_r"} => Visible = atCall
    /\ Returned => result = (IF ans THEN FALSE ELSE InRange(uid))

C8_Witness == pc = "test_r" /\ testIdx = 5 /\ result /\ Visible = atCall

\* C9: main parses the argument as an int and hands it to the unsigned
\* predicate; with an existence check that answers false a negative value
\* becomes the value plus 2^32, which is at least 10000, and is reported
\* "ID is acceptable: 0"; an argument that does not start with a number parses
\* to 0 and is reported 0 too; the verdict is 1 only for parsed values
\* 1001..9999.
C9_VerdictOfParsedValue ==
    (run = "cli" /\ pc = "main33" /\ ~ans) =>
        /\ id \in AtoiResults(argv[2])
        /\ IF id >= 0
           THEN uid.hi * 65536 + uid.lo = id
           ELSE /\ uid.hi >= 32768
                /\ (uid.hi - 65536) * 65536 + uid.lo = id
                /\ stdout = <<"ID is acceptable: 0\n">>
        /\ LET s == argv[2]
               i == SkipSpace(s, 1)
               j == IF i <= Len(s) /\ s[i] \in {"+", "-"} THEN i + 1 ELSE i
           IN  ~(j <= Len(s) /\ IsDigit(s[j])) =>
                  (id = 0 /\ stdout = <<"ID is acceptable: 0\n">>)
        /\ stdout \in {<<"ID is acceptable: 0\n">>, <<"ID is acceptable: 1\n">>}
        /\ stdout = <<"ID is acceptable: 1\n">> => id \in 1001..9999

C9_Witness ==
    /\ run = "cli" /\ pc = "main33" /\ ~ans
    /\ id < 0 /\ uid.hi >= 32768
    /\ stdout = <<"ID is acceptable: 0\n">>

\* C10: no run of the command-line program or of the test program enters
\* some_function or function_somewhere_else, and function_somewhere_else is
\* entered only from some_function.
C10_SomeFunctionNeverRuns ==
    /\ run \in {"cli", "test"} =>
          /\ calls \cap {"some_function", "function_somewhere_else"} = {}
          /\ pc \notin {"sf19", "sf20", "fse9", "fse10"}
    /\ "function_somewhere_else" \in calls => "some_function" \in calls

C10_Witness ==
    /\ run = "test" /\ pc = "halted" /\ exit = "exit 0"
    /\ calls = {"test_main", "test_id", "is_acceptable_id",
                "test-example.c:database_id_exists"}

====
